---- MODULE Spec2Model ----
(***************************************************************************)
(* Model of scripts/ai_review.js: the secret check, the recursive walk of  *)
(* "src", the per-file review loop with its table extraction, the          *)
(* consolidated summary and the final write of reports/ai-code-review.md.  *)
(*                                                                         *)
(* Strings are sequences of symbols.  A symbol is one character ("|",      *)
(* ".", "j", ...) or, where the characters inside never matter to the      *)
(* code, one token standing for a fixed run of characters ("src",          *)
(* "node_modules", " Problema Principal").  The report string is kept as   *)
(* the sequence of the pieces appended to it by `report +=`.               *)
(***************************************************************************)
EXTENDS Integers, Sequences, FiniteSets, TLC

\* ------------------------------------------------------------------ bounds
\* Number of nodes of the directory trees explored by SpecWalk (node 1 = src).
MaxNodes == 5
\* Number of nodes of the directory trees explored by Spec (whole runs).
MainNodes == 5
\* Longest service answer explored by SpecExtract.
MaxTextLen == 8

\* ----------------------------------------------------------------- symbols
BAR == "|"
NL == "\n"
\* The text " Problema Principal" that follows "| " in tableStartMarker.
HDR == "P"
Other == "x"
Chars == {BAR, NL, HDR, Other}

\* --------------------------------------------------------- string helpers
\* String.prototype.endsWith
EndsWith(s, suffix) ==
    /\ Len(s) >= Len(suffix)
    /\ SubSeq(s, Len(s) - Len(suffix) + 1, Len(s)) = suffix

\* String.prototype.indexOf, 1-based; 0 stands for JavaScript's -1.
RECURSIVE IndexFrom(_, _, _)
IndexFrom(s, sub, i) ==
    IF i + Len(sub) - 1 > Len(s) THEN 0
    ELSE IF SubSeq(s, i, i + Len(sub) - 1) = sub THEN i
    ELSE IndexFrom(s, sub, i + 1)

IndexOf(s, sub) == IndexFrom(s, sub, 1)

\* String.prototype.substring(start) (1-based start)
SubstringFrom(s, start) == SubSeq(s, start, Len(s))

IsSpace(c) == c \in {NL, " "}

RECURSIVE TrimLeft(_)
TrimLeft(s) ==
    IF s # <<>> /\ IsSpace(Head(s)) THEN TrimLeft(Tail(s)) ELSE s

RECURSIVE TrimRight(_)
TrimRight(s) ==
    IF s # <<>> /\ IsSpace(s[Len(s)]) THEN TrimRight(SubSeq(s, 1, Len(s) - 1)) ELSE s

\* String.prototype.trim
Trim(s) == TrimRight(TrimLeft(s))

\* path.join(dir, f) for a non-empty dir and a name without separators
PathJoin(dir, f) == dir \o <<"/">> \o f

\* ------------------------------------------------------- the file system
SrcName == <<"src">>
JsSuffix == <<".", "j", "s">>

NameAJs == <<"a", ".", "j", "s">>
NameBJs == <<"b", ".", "j", "s">>
NameJsx == <<"a", ".", "j", "s", "x">>
NameTests == <<"tests">>
NameNodeModules == <<"node_modules">>
NameReports == <<"reports">>

\* Entry names the explored trees draw from.
Names == {NameAJs, NameBJs, NameJsx, NameTests, NameNodeModules, NameReports}
MainNames == {NameAJs, NameBJs, NameTests}

\* Kinds of directory entry: a regular file, a directory, a directory whose
\* listing fails (readdirSync throws), an entry whose statSync throws (a
\* dangling link), no entry at all.
EntryKinds == {"file", "dir", "baddir", "broken"}

\* Shape of the explored trees: node 1 is the root, nodes 2 and 3 are its
\* entries, node 4 is an entry of node 2, and every node from 5 on is the
\* entry of the node before it.
Parent(n) == IF n <= 3 THEN 1 ELSE IF n = 4 THEN 2 ELSE n - 1

Absent == [kind |-> "none", name |-> <<>>]

\* What node k may be once nodes 1..k-1 are t: an entry exists only inside a
\* directory, and the entries of one directory have distinct names.
NodeChoices(t, k, names) ==
    IF t[Parent(k)].kind # "dir" THEN {Absent}
    ELSE {Absent} \cup
         { r \in [kind : EntryKinds, name : names] :
             \A j \in 2..(k - 1) : Parent(j) = Parent(k) => t[j].name # r.name }

\* The trees over nodes 1..n with entry names from `names`; the root is
\* "src", a directory that can be listed or not (missing, unreadable).
RECURSIVE Trees(_, _)
Trees(n, names) ==
    IF n = 1 THEN { <<[kind |-> k, name |-> SrcName]>> : k \in {"dir", "baddir"} }
    ELSE UNION { { Append(t, r) : r \in NodeChoices(t, n, names) } : t \in Trees(n - 1, names) }

\* fs.readdirSync(dir): the entries of node d, in the order of the listing.
RECURSIVE EntriesFrom(_, _, _)
EntriesFrom(t, d, k) ==
    IF k > Len(t) THEN <<>>
    ELSE IF Parent(k) = d /\ t[k].kind # "none"
         THEN <<k>> \o EntriesFrom(t, d, k + 1)
         ELSE EntriesFrom(t, d, k + 1)

Readdir(t, d) == EntriesFrom(t, d, 2)

\* stat.isDirectory()
IsDirectory(kind) == kind \in {"dir", "baddir"}

\* ------------------------------------------------------------------- walk
\* The exclusion test of walk, line 66, with `reports` forgotten.
ExcludedForgetsReports(f) == f = NameNodeModules \/ f = NameTests

\* f === 'node_modules' || f === 'tests' || f === 'reports'
Excluded(f) == f = NameNodeModules \/ f = NameTests \/ f = NameReports

\* full.endsWith(".js")
IsJs(full) == EndsWith(full, JsSuffix)

\* The error fs throws: the failing call and its path.
FsError(op, path) == <<op, ":">> \o path

\* walk(dir) on node d whose path is dir.  acc is the state the walk shares
\* with its callers: err (the exception thrown, <<>> while there is none),
\* files (jsFiles) and listed (the readdirSync calls made).  An exception
\* ends every enclosing loop.
RECURSIVE WalkDir(_, _, _, _)
RECURSIVE WalkEntries(_, _, _, _, _)
WalkDir(t, d, dir, acc) ==
    IF t[d].kind = "baddir"
    THEN [acc EXCEPT !.err = FsError("readdir", dir), !.listed = @ + 1]
    ELSE WalkEntries(t, Readdir(t, d), 1, dir, [acc EXCEPT !.listed = @ + 1])

WalkEntries(t, files, i, dir, acc) ==
    IF acc.err # <<>> \/ i > Len(files) THEN acc
    ELSE LET f == t[files[i]].name
             full == PathJoin(dir, f)
             kind == t[files[i]].kind
         IN  IF kind = "broken" THEN [acc EXCEPT !.err = FsError("stat", full)]
             ELSE IF IsDirectory(kind)
             THEN IF Excluded(f)
                  THEN WalkEntries(t, files, i + 1, dir, acc)
                  ELSE WalkEntries(t, files, i + 1, dir, WalkDir(t, files[i], full, acc))
             ELSE IF IsJs(full)
             THEN WalkEntries(t, files, i + 1, dir, [acc EXCEPT !.files = Append(@, full)])
             ELSE WalkEntries(t, files, i + 1, dir, acc)

\* walk("src") with jsFiles = []
Walk(t) == WalkDir(t, 1, SrcName, [err |-> <<>>, files |-> <<>>, listed |-> 0])

\* ------------------------------------------------- the table extraction
\* tableStartMarker = `| ${tableNameHeader}`
TableStartMarker == <<BAR, HDR>>

\* `.` of tableRegex: with the s flag it matches every character.
Dot(c) == TRUE

\* tableRegex = /(\|.*?\n)+\|.*?/s run the way a backtracking matcher runs
\* it.  Positions are 1-based; a result is the position after the match, 0
\* is failure.
\*   GroupAt(s, p)     one more iteration of the group (\|.*?\n) at p, then
\*                     the rest of the pattern;
\*   LazyNL(s, p, e)   the lazy .*? of that iteration has consumed p+1..e-1:
\*                     take \n at e if it is there, else consume one more;
\*   AfterGroup(s, p)  after an iteration ending before p: the greedy +
\*                     tries another iteration first, then \|.*? whose lazy
\*                     .*? matches the empty string.
RECURSIVE GroupAt(_, _)
RECURSIVE LazyNL(_, _, _)
RECURSIVE AfterGroup(_, _)
GroupAt(s, p) ==
    IF p <= Len(s) /\ s[p] = BAR THEN LazyNL(s, p, p + 1) ELSE 0

LazyNL(s, p, e) ==
    IF e > Len(s) THEN 0
    ELSE LET r == IF s[e] = NL THEN AfterGroup(s, e + 1) ELSE 0
         IN  IF r # 0 THEN r
             ELSE IF Dot(s[e]) THEN LazyNL(s, p, e + 1)
             ELSE 0

AfterGroup(s, p) ==
    LET r == GroupAt(s, p)
    IN  IF r # 0 THEN r
        ELSE IF p <= Len(s) /\ s[p] = BAR THEN p + 1
        ELSE 0

\* tableContent.match(tableRegex): the leftmost start that matches; the
\* result is match[0], or <<>> for null.
RECURSIVE MatchFrom(_, _)
MatchFrom(s, start) ==
    IF start > Len(s) THEN <<>>
    ELSE LET e == GroupAt(s, start)
         IN  IF e # 0 THEN SubSeq(s, start, e - 1) ELSE MatchFrom(s, start + 1)

Match(s) == MatchFrom(s, 1)

\* Lines 92-109 on a string full_feedback: the summary table pushed to
\* resumoProblemas, or <<>> when nothing is pushed.
ExtractTable(full_feedback) ==
    LET tableStart == IndexOf(full_feedback, TableStartMarker)
    IN  IF tableStart # 0
        THEN LET tableContent == SubstringFrom(full_feedback, tableStart)
                 match == Match(tableContent)
             IN  IF match # <<>> THEN Trim(match) ELSE <<>>
        ELSE <<>>


\* ------------------------------------------------- the pieces of the report
\* A piece of the report string: its type, the file it is about, its text and
\* (for the consolidated summary) the entries it joins.
Piece(type, file, body, entries) ==
    [type |-> type, file |-> file, body |-> body, entries |-> entries]

\* "# Relatório de Revisão AI – Gemini\n\n"
Title == Piece("title", <<>>, <<>>, <<>>)

\* `## Arquivo: ${filePath}\n\n${full_feedback}\n\n`
OkSection(filePath, text) == Piece("ok", filePath, text, <<>>)

\* The section of the catch block, line 113, without the message.
ErrSectionNoMessage(filePath, message) == Piece("err", filePath, <<>>, <<>>)

\* `## Arquivo: ${filePath}\n\n**Erro ao analisar**: ${err.message}\n\n`
ErrSection(filePath, message) == Piece("err", filePath, message, <<>>)

\* "\n---\n\n"
Separator == Piece("sep", <<>>, <<>>, <<>>)

\* `### Resumo do Arquivo: \`${filePath}\`\n${match[0].trim()}\n`
SummaryEntry(filePath, table) == [file |-> filePath, table |-> table]

Intro == <<"Este e o resumo de problemas">>
Placeholder == <<"Nenhum arquivo JavaScript encontrado">>

\* tabelaGeral, lines 120-126, with the test written as length > 1.
TabelaGeralOffByOne(resumo) ==
    IF Len(resumo) > 1
    THEN Piece("summary", <<>>, Intro, resumo)
    ELSE Piece("summary", <<>>, Placeholder, <<>>)

\* tabelaGeral, lines 120-126
TabelaGeral(resumo) ==
    IF Len(resumo) > 0
    THEN Piece("summary", <<>>, Intro, resumo)
    ELSE Piece("summary", <<>>, Placeholder, <<>>)

\* ---------------------------------------------------- the service answers
\* response.text: a string, or undefined when the answer carries no text.
Text(s) == [defined |-> TRUE, str |-> s]
Undefined == [defined |-> FALSE, str |-> <<>>]

\* ${full_feedback} inside a template literal
ToStr(v) == IF v.defined THEN v.str ELSE <<"undefined">>

\* Messages of the errors a review can raise.
ReadError(filePath) == FsError("read", filePath)
ServiceError == <<"503 UNAVAILABLE">>
NoKeyInAnalyze == <<"403 PERMISSION_DENIED">>
TypeErrorIndexOf == <<"TypeError: Cannot read properties of undefined (reading 'indexOf')">>
NoKeyInMain == <<"GEMINI_API_KEY nao encontrada. Abortando analise.">>
MkdirError == FsError("mkdir", <<"reports">>)
WriteError == FsError("write", <<"reports/ai-code-review.md">>)

\* A table followed by prose: header, separator, one data row.
TableThenProse == <<BAR, HDR, NL, BAR, Other, NL, BAR, Other, NL, Other>>

\* The answers of the service explored by Spec.
MainAnswers ==
    { Undefined, Text(<<>>), Text(<<Other>>), Text(<<BAR, HDR>>), Text(TableThenProse) }

\* Every answer of at most MaxTextLen symbols, explored by SpecExtract.
AllTexts == UNION { [1..n -> Chars] : n \in 0..MaxTextLen }

\* -------------------------------------------------------------- the state
VARIABLES
    key,             \* process.env.GEMINI_API_KEY is set and not empty
    tree,            \* the directory tree under "src"
    reportsDir,      \* the directory "reports" exists
    reportFile,      \* content of reports/ai-code-review.md
    pc,              \* where main is: start, walk, mkdir, loop, await, write, exit
    exitCode,        \* exit status of the process, -1 while it runs
    stderr,          \* the message console.error printed, <<>> if none
    jsFiles,         \* jsFiles
    idx,             \* position of the for...of loop in jsFiles
    report,          \* report
    resumoProblemas, \* resumoProblemas
    inflight,        \* generateContent calls not answered yet
    dirsListed,      \* readdirSync calls made
    filesRead,       \* readFileSync calls made
    requests,        \* generateContent calls made
    mkdirCalls,      \* mkdirSync calls made
    writeCalls,      \* writeFileSync calls made
    invocations,     \* the files analyzeFile was called with, in order
    outcomes,        \* how each call of analyzeFile ended, in order
    extractTried     \* the files whose feedback reached line 94 (indexOf)

vars == << key, tree, reportsDir, reportFile, pc, exitCode, stderr, jsFiles, idx,
           report, resumoProblemas, inflight, dirsListed, filesRead, requests,
           mkdirCalls, writeCalls, invocations, outcomes, extractTried >>

env == << key, tree >>
disk == << reportsDir, reportFile, mkdirCalls, writeCalls >>
accum == << report, resumoProblemas, extractTried >>
reviews == << inflight, filesRead, requests, invocations, outcomes >>

\* What the report file held before the run (possibly nothing).
PriorReport == << Piece("prior", <<>>, <<>>, <<>>) >>

\* The state main starts in, for a given environment.
Start(k, t, d) ==
    /\ key = k
    /\ tree = t
    /\ reportsDir = d
    /\ reportFile = PriorReport
    /\ pc = "start"
    /\ exitCode = -1
    /\ stderr = <<>>
    /\ jsFiles = <<>>
    /\ idx = 1
    /\ report = <<>>
    /\ resumoProblemas = <<>>
    /\ inflight = 0
    /\ dirsListed = 0
    /\ filesRead = 0
    /\ requests = 0
    /\ mkdirCalls = 0
    /\ writeCalls = 0
    /\ invocations = <<>>
    /\ outcomes = <<>>
    /\ extractTried = <<>>

Init ==
    \E k \in BOOLEAN, t \in Trees(MainNodes, MainNames), d \in BOOLEAN : Start(k, t, d)

\* main().catch: console.error(...) and process.exit(1), lines 134-138
Fatal(message) ==
    /\ pc' = "exit"
    /\ exitCode' = 1
    /\ stderr' = message

\* Lines 46-52 without the test of apiKey.
CheckSecretSkipped ==
    /\ pc = "start"
    /\ pc' = "walk"
    /\ UNCHANGED << env, disk, accum, reviews, exitCode, stderr, jsFiles, idx, dirsListed >>

\* Lines 46-54: the secret check of main.
CheckSecret ==
    /\ pc = "start"
    /\ IF ~key THEN Fatal(NoKeyInMain)
       ELSE pc' = "walk" /\ UNCHANGED << exitCode, stderr >>
    /\ UNCHANGED << env, disk, accum, reviews, jsFiles, idx, dirsListed >>

\* Line 76: walk("src"); an exception of fs escapes main.
Discover ==
    /\ pc = "walk"
    /\ LET w == Walk(tree)
       IN  /\ dirsListed' = w.listed
           /\ IF w.err # <<>>
              THEN Fatal(w.err) /\ UNCHANGED jsFiles
              ELSE /\ jsFiles' = w.files
                   /\ pc' = "mkdir"
                   /\ UNCHANGED << exitCode, stderr >>
    /\ UNCHANGED << env, disk, accum, reviews, idx >>

\* Lines 78-82 with the report file opened (and emptied) before the loop.
EnsureReportsDirTruncates ==
    /\ pc = "mkdir"
    /\ \/ /\ reportsDir
          /\ report' = <<Title>>
          /\ reportFile' = <<>>
          /\ pc' = "loop"
          /\ UNCHANGED << reportsDir, mkdirCalls, exitCode, stderr >>
       \/ /\ ~reportsDir
          /\ mkdirCalls' = mkdirCalls + 1
          /\ Fatal(MkdirError)
          /\ reportFile' = <<>>
          /\ UNCHANGED << reportsDir, report >>
    /\ UNCHANGED << env, writeCalls, resumoProblemas, extractTried, reviews,
                    jsFiles, idx, dirsListed >>

\* Lines 78-82: existsSync, mkdirSync (which can throw), the report's title.
EnsureReportsDir ==
    /\ pc = "mkdir"
    /\ \/ /\ reportsDir
          /\ report' = <<Title>>
          /\ pc' = "loop"
          /\ UNCHANGED << reportsDir, mkdirCalls, exitCode, stderr >>
       \/ /\ ~reportsDir
          /\ mkdirCalls' = mkdirCalls + 1
          /\ reportsDir' = TRUE
          /\ report' = <<Title>>
          /\ pc' = "loop"
          /\ UNCHANGED << exitCode, stderr >>
       \/ /\ ~reportsDir
          /\ mkdirCalls' = mkdirCalls + 1
          /\ Fatal(MkdirError)
          /\ UNCHANGED << reportsDir, report >>
    /\ UNCHANGED << env, reportFile, writeCalls, resumoProblemas, extractTried,
                    reviews, jsFiles, idx, dirsListed >>

\* ------------------------------------------------------- the review loop
\* How a call of analyzeFile ended: kind "readerr", "svcerr", "nokey" or
\* "text"; v is response.text of a "text" outcome, message the error's.
Outcome(kind, v, message) == [kind |-> kind, v |-> v, message |-> message]

\* The catch block, lines 111-114: the failure section of filePath.
AfterThrow(rep, filePath, message) == Append(rep, ErrSection(filePath, message))

\* Lines 86-109 once analyzeFile has resolved with full_feedback = v: the
\* section is appended first; indexOf on undefined throws a TypeError that
\* the catch block of the same iteration records as a second section.
AfterAnswer(rep, resumo, tried, filePath, v) ==
    LET withSection == Append(rep, OkSection(filePath, ToStr(v)))
    IN  IF ~v.defined
        THEN [report |-> AfterThrow(withSection, filePath, TypeErrorIndexOf),
              resumo |-> resumo,
              tried  |-> Append(tried, filePath)]
        ELSE LET table == ExtractTable(v.str)
             IN  [report |-> withSection,
                  resumo |-> IF table # <<>>
                             THEN Append(resumo, SummaryEntry(filePath, table))
                             ELSE resumo,
                  tried  |-> Append(tried, filePath)]

\* analyzeFile, line 11, with no try/catch around the call: the error of
\* readFileSync leaves main.
ReadFailsEscapes ==
    /\ pc = "loop"
    /\ idx <= Len(jsFiles)
    /\ invocations' = Append(invocations, jsFiles[idx])
    /\ filesRead' = filesRead + 1
    /\ outcomes' = Append(outcomes, Outcome("readerr", Undefined, ReadError(jsFiles[idx])))
    /\ Fatal(ReadError(jsFiles[idx]))
    /\ UNCHANGED << env, disk, accum, jsFiles, idx, inflight, requests, dirsListed >>

\* analyzeFile, line 11: readFileSync throws; the catch block records it.
ReadFails ==
    /\ pc = "loop"
    /\ idx <= Len(jsFiles)
    /\ LET filePath == jsFiles[idx]
       IN  /\ invocations' = Append(invocations, filePath)
           /\ filesRead' = filesRead + 1
           /\ outcomes' = Append(outcomes, Outcome("readerr", Undefined, ReadError(filePath)))
           /\ report' = AfterThrow(report, filePath, ReadError(filePath))
    /\ idx' = idx + 1
    /\ UNCHANGED << env, disk, pc, exitCode, stderr, jsFiles, resumoProblemas,
                    extractTried, inflight, requests, dirsListed >>

\* analyzeFile, lines 11-36, with the call not awaited: the loop goes on to
\* the next file while the request is still open.
SendRequestNotAwaited ==
    /\ pc = "loop"
    /\ idx <= Len(jsFiles)
    /\ invocations' = Append(invocations, jsFiles[idx])
    /\ filesRead' = filesRead + 1
    /\ requests' = requests + 1
    /\ inflight' = inflight + 1
    /\ idx' = idx + 1
    /\ UNCHANGED << env, disk, accum, pc, exitCode, stderr, jsFiles, outcomes, dirsListed >>

\* analyzeFile, lines 11-36: the file is read, the key is tested again and
\* the request is sent; main waits for the answer.
SendRequest ==
    /\ pc = "loop"
    /\ idx <= Len(jsFiles)
    /\ LET filePath == jsFiles[idx]
       IN  /\ invocations' = Append(invocations, filePath)
           /\ filesRead' = filesRead + 1
           /\ IF ~key
              THEN /\ outcomes' = Append(outcomes, Outcome("nokey", Undefined, NoKeyInAnalyze))
                   /\ report' = AfterThrow(report, filePath, NoKeyInAnalyze)
                   /\ idx' = idx + 1
                   /\ UNCHANGED << pc, requests, inflight >>
              ELSE /\ requests' = requests + 1
                   /\ inflight' = inflight + 1
                   /\ pc' = "await"
                   /\ UNCHANGED << outcomes, report, idx >>
    /\ UNCHANGED << env, disk, exitCode, stderr, jsFiles, resumoProblemas,
                    extractTried, dirsListed >>

\* The request is rejected: analyzeFile throws, the catch block records it.
ServiceFails ==
    /\ pc = "await"
    /\ LET filePath == jsFiles[idx]
       IN  /\ outcomes' = Append(outcomes, Outcome("svcerr", Undefined, ServiceError))
           /\ report' = AfterThrow(report, filePath, ServiceError)
    /\ inflight' = inflight - 1
    /\ idx' = idx + 1
    /\ pc' = "loop"
    /\ UNCHANGED << env, disk, exitCode, stderr, jsFiles, resumoProblemas, extractTried,
                    filesRead, requests, invocations, dirsListed >>

\* The request is answered with response.text = v: lines 38-41 and 86-109.
ServiceAnswers(v) ==
    /\ pc = "await"
    /\ LET a == AfterAnswer(report, resumoProblemas, extractTried, jsFiles[idx], v)
       IN  /\ report' = a.report
           /\ resumoProblemas' = a.resumo
           /\ extractTried' = a.tried
    /\ outcomes' = Append(outcomes, Outcome("text", v, <<>>))
    /\ inflight' = inflight - 1
    /\ idx' = idx + 1
    /\ pc' = "loop"
    /\ UNCHANGED << env, disk, exitCode, stderr, jsFiles, filesRead, requests,
                    invocations, dirsListed >>

\* The answer is one of `answers`.
AnswerFrom(answers) ==
    /\ pc = "await"
    /\ \E v \in answers : ServiceAnswers(v)

\* Lines 117-129, after the loop: the separator and the consolidated summary.
BuildSummary ==
    /\ pc = "loop"
    /\ idx > Len(jsFiles)
    /\ report' = report \o << Separator, TabelaGeral(resumoProblemas) >>
    /\ pc' = "write"
    /\ UNCHANGED << env, disk, reviews, exitCode, stderr, jsFiles, idx,
                    resumoProblemas, extractTried, dirsListed >>

\* Line 131: writeFileSync replaces the file, or throws leaving the file as
\* it was (open failed) or emptied (the write failed after the truncation).
WriteReport ==
    /\ pc = "write"
    /\ writeCalls' = writeCalls + 1
    /\ \/ /\ reportFile' = report
          /\ pc' = "exit"
          /\ exitCode' = 0
          /\ UNCHANGED stderr
       \/ /\ reportFile' \in {reportFile, <<>>}
          /\ Fatal(WriteError)
    /\ UNCHANGED << env, reportsDir, mkdirCalls, accum, reviews, jsFiles, idx, dirsListed >>

Next ==
    \/ CheckSecret
    \/ Discover
    \/ EnsureReportsDir
    \/ ReadFails
    \/ SendRequest
    \/ ServiceFails
    \/ AnswerFrom(MainAnswers)
    \/ BuildSummary
    \/ WriteReport

Spec == Init /\ [][Next]_vars

\* ------------------------------------------------ discovery on every tree
\* Before the script starts, the tree under "src" is populated entry by entry.
AddEntry ==
    /\ pc = "start"
    /\ Len(tree) < MaxNodes
    /\ \E r \in NodeChoices(tree, Len(tree) + 1, Names) : tree' = Append(tree, r)
    /\ UNCHANGED << key, disk, accum, reviews, pc, exitCode, stderr, jsFiles, idx, dirsListed >>

InitWalk ==
    \E k \in {"dir", "baddir"} : Start(TRUE, << [kind |-> k, name |-> SrcName] >>, TRUE)

NextWalk == AddEntry \/ CheckSecret \/ Discover

SpecWalk == InitWalk /\ [][NextWalk]_vars

\* ------------------------------------------- extraction on every answer
\* "src" holding the single file a.js.
OneFileTree == << [kind |-> "dir", name |-> SrcName], [kind |-> "file", name |-> NameAJs] >>

InitExtract == \E d \in BOOLEAN : Start(TRUE, OneFileTree, d)

NextExtract ==
    \/ CheckSecret
    \/ Discover
    \/ EnsureReportsDir
    \/ SendRequest
    \/ AnswerFrom({ Text(s) : s \in AllTexts })

SpecExtract == InitExtract /\ [][NextExtract]_vars

\* ------------------------------------------------------------ properties
\* The per-file sections of a report, in order.
IsSection(p) == p.type \in {"ok", "err"}
Sections(rep) == SelectSeq(rep, IsSection)
SectionFiles(rep) == [i \in 1..Len(Sections(rep)) |-> Sections(rep)[i].file]
Pieces(rep) == { rep[i] : i \in 1..Len(rep) }
HasSummary(rep) == \E p \in Pieces(rep) : p.type = "summary"

\* The loop is over: the report has reached (or passed) the final write.
ReachedWrite == pc = "write" \/ writeCalls > 0

\* C1: in every run that reaches the final write, the files of the per-file
\* sections of the report, in order, are exactly the discovered files: one
\* section per file, none missing, none twice, whatever each review returned.
C1_OneSectionPerFile ==
    ReachedWrite => SectionFiles(report) = jsFiles

\* First position at or after p holding a line break, Len(s)+1 if none.
RECURSIVE LineEnd(_, _)
LineEnd(s, p) == IF p > Len(s) \/ s[p] = NL THEN p ELSE LineEnd(s, p + 1)

\* Last position of the block of contiguous lines starting with "|" whose
\* first line starts at p.
RECURSIVE RowsEnd(_, _)
RowsEnd(s, p) ==
    LET e == LineEnd(s, p)
    IN  IF e + 1 <= Len(s) /\ s[e + 1] = BAR THEN RowsEnd(s, e + 1) ELSE e - 1

\* Number of lines of that block.
RECURSIVE RowCount(_, _)
RowCount(s, p) ==
    LET e == LineEnd(s, p)
    IN  IF e + 1 <= Len(s) /\ s[e + 1] = BAR THEN 1 + RowCount(s, e + 1) ELSE 1

\* Every line of that block is a "|" followed by a cell that is not empty.
RECURSIVE RowsHaveCells(_, _)
RowsHaveCells(s, p) ==
    LET e == LineEnd(s, p)
    IN  /\ e > p + 1
        /\ s[p + 1] # BAR
        /\ (e + 1 <= Len(s) /\ s[e + 1] = BAR) => RowsHaveCells(s, e + 1)

\* s holds the marker at the start of a line, opening a block of at least
\* three table lines: header, separator, one or more data rows.
WellFormedTable(s) ==
    LET start == IndexOf(s, <<BAR, HDR>>)
    IN  /\ start # 0
        /\ start = 1 \/ s[start - 1] = NL
        /\ RowCount(s, start) >= 3
        /\ RowsHaveCells(s, start)

\* That block, verbatim.
TableOf(s) == SubSeq(s, IndexOf(s, <<BAR, HDR>>), RowsEnd(s, IndexOf(s, <<BAR, HDR>>)))

\* C2: when a successful feedback text holds the marker followed by a
\* well-formed table, the summary entry of the file is that table verbatim:
\* header, separator and every contiguous data row, ending before the first
\* line that does not start with "|".
C2_TableVerbatim ==
    \A i \in 1..Len(outcomes) :
        (/\ outcomes[i].kind = "text"
         /\ outcomes[i].v.defined
         /\ WellFormedTable(outcomes[i].v.str))
        => \E j \in 1..Len(resumoProblemas) :
              /\ resumoProblemas[j].file = invocations[i]
              /\ resumoProblemas[j].table = TableOf(outcomes[i].v.str)

IsError(o) == o.kind \in {"readerr", "svcerr"}

\* The section the report holds for file f after its review ended with o.
SectionRecorded(f, o) ==
    IF o.kind = "text"
    THEN \E p \in Pieces(report) : p.type = "ok" /\ p.file = f /\ p.body = ToStr(o.v)
    ELSE \E p \in Pieces(report) : p.type = "err" /\ p.file = f /\ p.body = o.message

\* C3: when the review of file X raises an error (read or service failure),
\* the one section of X carries that error's message, X has no summary entry,
\* extraction is never attempted for X, and every later file is still
\* reviewed, its section present and fixed by its own outcome alone.
C3_FailureIsolated ==
    \A i \in 1..Len(outcomes) :
        IsError(outcomes[i]) =>
            /\ \E p \in Pieces(report) :
                  p.type = "err" /\ p.file = invocations[i] /\ p.body = outcomes[i].message
            /\ Cardinality({ k \in 1..Len(report) :
                  IsSection(report[k]) /\ report[k].file = invocations[i] }) = 1
            /\ \A j \in 1..Len(resumoProblemas) : resumoProblemas[j].file # invocations[i]
            /\ \A j \in 1..Len(extractTried) : extractTried[j] # invocations[i]
            /\ \A j \in (i + 1)..Len(outcomes) : SectionRecorded(invocations[j], outcomes[j])
            /\ ReachedWrite => invocations = jsFiles /\ Len(outcomes) = Len(jsFiles)

\* A service failure on the first of two files, a table extracted from the
\* second, and the run completed.
C3_Witness ==
    /\ pc = "exit" /\ exitCode = 0
    /\ Len(outcomes) = 2
    /\ outcomes[1].kind = "svcerr"
    /\ outcomes[2].kind = "text"
    /\ Len(resumoProblemas) = 1

RECURSIVE PathOf(_, _)
PathOf(t, k) == IF k = 1 THEN t[1].name ELSE PathOf(t, Parent(k)) \o <<"/">> \o t[k].name

\* Node k lies in or below a directory called node_modules, tests or reports.
RECURSIVE BelowExcluded(_, _)
BelowExcluded(t, k) ==
    /\ k # 1
    /\ \/ (/\ t[Parent(k)].name \in {<<"node_modules">>, <<"tests">>, <<"reports">>}
           /\ Parent(k) # 1)
       \/ BelowExcluded(t, Parent(k))

\* The files discovery has to return.
Eligible(t) ==
    { k \in 2..Len(t) :
        /\ t[k].kind = "file"
        /\ Len(t[k].name) >= 3
        /\ SubSeq(t[k].name, Len(t[k].name) - 2, Len(t[k].name)) = <<".", "j", "s">>
        /\ ~BelowExcluded(t, k) }

\* C5: discovery returns exactly the files whose name ends in ".js" and whose
\* path passes through no directory named node_modules, tests or reports, at
\* any depth, each exactly once; nothing else is collected.
C5_DiscoveryExact ==
    pc = "mkdir" =>
        /\ { jsFiles[i] : i \in 1..Len(jsFiles) } = { PathOf(tree, k) : k \in Eligible(tree) }
        /\ Len(jsFiles) = Cardinality(Eligible(tree))

\* Discovery returned a file while a .js file two levels down, inside a
\* directory called reports, was left out.
C5_Witness ==
    /\ pc = "mkdir"
    /\ Len(jsFiles) >= 1
    /\ Len(tree) >= 5
    /\ tree[4].kind = "dir" /\ tree[4].name = NameReports
    /\ tree[5].kind = "file" /\ tree[5].name = NameAJs

\* C6: a request answered with an empty text or with no text at all is a
\* per-file error: the file's section is a failure section with a message,
\* not a success section.
C6_EmptyAnswerIsError ==
    \A i \in 1..Len(outcomes) :
        (outcomes[i].kind = "text" /\ (~outcomes[i].v.defined \/ outcomes[i].v.str = <<>>))
        => /\ \E p \in Pieces(report) :
                 p.type = "err" /\ p.file = invocations[i] /\ p.body # <<>>
           /\ \A p \in Pieces(report) : ~(p.type = "ok" /\ p.file = invocations[i])

HasSection(f) == \E p \in Pieces(report) : IsSection(p) /\ p.file = f

\* C7: the files are reviewed in discovery order, each once and never again
\* after a failure; no review starts before discovery is over; at most one
\* request is open; the section of a file is recorded before the next review
\* starts; the summary is built only when the last section is recorded.
C7_StrictlySequential ==
    /\ Len(invocations) <= Len(jsFiles)
    /\ invocations = SubSeq(jsFiles, 1, Len(invocations))
    /\ ReachedWrite => invocations = jsFiles
    /\ invocations # <<>> => (dirsListed > 0 /\ pc \in {"loop", "await", "write", "exit"})
    /\ inflight \in {0, 1}
    /\ requests <= Len(invocations)
    /\ Len(outcomes) \in {Len(invocations) - 1, Len(invocations)}
    /\ inflight = 1 <=> Len(outcomes) = Len(invocations) - 1
    /\ \A i \in 1..(Len(invocations) - 1) : HasSection(invocations[i])
    /\ \A i \in 1..Len(outcomes) : HasSection(invocations[i])
    /\ HasSummary(report) =>
          /\ Len(outcomes) = Len(jsFiles)
          /\ inflight = 0
          /\ \A i \in 1..Len(jsFiles) : HasSection(jsFiles[i])
          /\ report[Len(report)].type = "summary"

\* The second of two reviews is waiting for its answer after the first one,
\* whose read failed, was recorded.
C7_Witness ==
    /\ pc = "await"
    /\ Len(invocations) = 2
    /\ outcomes[1].kind = "readerr"
    /\ HasSection(jsFiles[1])
    /\ ~HasSection(jsFiles[2])

\* Position of file f in the discovered sequence, 0 if it is not there.
PositionOf(f) ==
    IF \E i \in 1..Len(jsFiles) : jsFiles[i] = f
    THEN CHOOSE i \in 1..Len(jsFiles) : jsFiles[i] = f
    ELSE 0

\* The files a table was extracted from.
Extracted ==
    { i \in 1..Len(outcomes) :
        /\ outcomes[i].kind = "text"
        /\ outcomes[i].v.defined
        /\ ExtractTable(outcomes[i].v.str) # <<>> }

\* C8: the consolidated summary holds the placeholder line exactly when no
\* summary entry was extracted (with no file discovered the report has no
\* section either); otherwise it lists exactly the extracted entries, in
\* processing order, at most one per file, each under its file's name.
C8_SummaryContents ==
    HasSummary(report) =>
        LET sum == report[Len(report)]
        IN  /\ sum.type = "summary"
            /\ Cardinality({ k \in 1..Len(report) : report[k].type = "summary" }) = 1
            /\ sum.body = Placeholder <=> Extracted = {}
            /\ sum.body = Placeholder => sum.entries = <<>>
            /\ Len(sum.entries) = Cardinality(Extracted)
            /\ \A i \in Extracted :
                  \E j \in 1..Len(sum.entries) :
                      /\ sum.entries[j].file = jsFiles[i]
                      /\ sum.entries[j].table = ExtractTable(outcomes[i].v.str)
            /\ \A j \in 1..Len(sum.entries) : PositionOf(sum.entries[j].file) \in Extracted
            /\ \A j, k \in 1..Len(sum.entries) :
                  j < k => PositionOf(sum.entries[j].file) < PositionOf(sum.entries[k].file)
            /\ jsFiles = <<>> => (Sections(report) = <<>> /\ sum.body = Placeholder)

\* Two files, the first answered without a table, the second with one: the
\* written summary lists the second file alone.
C8_Witness ==
    /\ pc = "exit" /\ exitCode = 0
    /\ Len(jsFiles) = 2
    /\ outcomes[1].kind = "text" /\ outcomes[1].v = Text(<<Other>>)
    /\ Len(resumoProblemas) = 1
    /\ resumoProblemas[1].file = jsFiles[2]

\* The fatal errors of a run, read off what the run did: no key; the listing
\* of "src" failed; mkdirSync was called and "reports" is still missing;
\* writeFileSync was called and the file does not hold the report.
NoKey == ~key
RootUnreadable == dirsListed > 0 /\ tree[1].kind = "baddir"
DiscoveryFailed == dirsListed > 0 /\ Walk(tree).err # <<>>
MkdirFailed == mkdirCalls > 0 /\ ~reportsDir
WriteFailed == writeCalls > 0 /\ reportFile # report

\* C9 as stated: the exit status is non-zero exactly when the key is
\* missing, the root directory cannot be read at the start of discovery, the
\* output directory cannot be created or the report cannot be written;
\* per-file errors alone end with status 0 and a written report.
C9_FatalExactlyListed ==
    pc = "exit" =>
        /\ exitCode # 0 <=> (NoKey \/ RootUnreadable \/ MkdirFailed \/ WriteFailed)
        /\ exitCode = 0 => reportFile = report

\* C9 amended: the exit status is non-zero exactly when the key is missing,
\* any readdirSync or statSync of discovery fails (on the root or on any
\* directory or entry the walk visits), the output directory cannot be
\* created or the report cannot be written; per-file errors alone end with
\* status 0 and a written report.
C9_FatalExactly ==
    /\ exitCode \in {-1, 0, 1}
    /\ exitCode = -1 <=> pc # "exit"
    /\ pc = "exit" =>
        /\ exitCode # 0 <=> (NoKey \/ DiscoveryFailed \/ MkdirFailed \/ WriteFailed)
        /\ exitCode # 0 <=> stderr # <<>>
        /\ exitCode = 0 => (reportFile = report /\ HasSummary(report))

\* Both reviews of a run failed (one read error, one service error) and the
\* run ended with status 0 and the report written.
C9_Witness ==
    /\ pc = "exit" /\ exitCode = 0
    /\ Len(outcomes) = 2
    /\ outcomes[1].kind = "readerr"
    /\ outcomes[2].kind = "svcerr"
    /\ reportFile = report

\* C10: the report file is written at most once, as the last action, after
\* every file was processed and the summary appended; a run that aborts
\* before that write leaves the file as it was; the output directory is
\* handled after discovery and before the first request, so a failure to
\* create it means no request was sent.
C10_WriteOnceAtEnd ==
    /\ writeCalls \in {0, 1}
    /\ writeCalls = 1 =>
          /\ pc = "exit"
          /\ Len(outcomes) = Len(jsFiles)
          /\ HasSummary(report)
    /\ writeCalls = 0 => reportFile = PriorReport
    /\ reportFile \in {PriorReport, <<>>, report}
    /\ mkdirCalls \in {0, 1}
    /\ mkdirCalls = 1 => (dirsListed > 0 /\ Walk(tree).err = <<>>)
    /\ (requests > 0 \/ filesRead > 0) => (reportsDir /\ dirsListed > 0)
    /\ MkdirFailed => (requests = 0 /\ filesRead = 0 /\ writeCalls = 0 /\ exitCode = 1)

\* Files were discovered, "reports" could not be created, the run aborted.
C10_Witness ==
    /\ pc = "exit"
    /\ stderr = MkdirError
    /\ Len(jsFiles) = 2
    /\ reportFile = PriorReport

====
